---- MODULE Spec2Model ----
(***************************************************************************)
(* A model of pymls' Layer / StochasticLayer (pymls/layers/layer.py) and   *)
(* of the interface resolver generic_interface (pypw/interface/utils.py).  *)
(*                                                                         *)
(* Python objects live in a heap of media indexed by references, so that   *)
(* aliasing between a layer's medium and the medium it was built from is   *)
(* something the model can express.  Python numbers carry their type:      *)
(* a value is a record [ty, v].                                            *)
(***************************************************************************)
EXTENDS Integers, Sequences, FiniteSets, TLC

\* ------------------------------------------------------------------ bounds

\* magnitudes of the numbers fed to the program: thicknesses and samples
MaxVal == 1
\* angular frequencies a medium is evaluated at: 1..MaxOmega
MaxOmega == 1
\* longest stack of media handed to the interface resolver
MaxStack == 4

\* ------------------------------------------------------------------ values

I(n) == [ty |-> "int", v |-> n]
F(n) == [ty |-> "float", v |-> n]
None == [ty |-> "NoneType", v |-> 0]

\* Python's float(x) on a number: the same magnitude, of type float
float(x) == [ty |-> "float", v |-> x.v]

\* Python's type(x)
type(x) == x.ty

\* dict(pairs): a later pair overrides an earlier one with the same key
dict(pairs) ==
    [k \in {pairs[i][1] : i \in DOMAIN pairs} |->
        LET last_i == CHOOSE i \in DOMAIN pairs :
                         /\ pairs[i][1] = k
                         /\ \A j \in DOMAIN pairs : pairs[j][1] = k => j <= i
        IN pairs[last_i][2]]

getattr(obj, attr) == obj[attr]

setattr(obj, attr, value) == [obj EXCEPT ![attr] = value]

\* ------------------------------------------------------------------ media

\* The parameter schema of the medium class: (name, type) pairs.
EXPECTED_PARAMS == << <<"rho", "float">> >>
OPT_PARAMS == << <<"order", "int">> >>

\* The cache marker of a medium whose derived state is stale.
STALE == I(-1)

\* The shared material definition the layers are built from.  `derived' is
\* the set (empty or a singleton) of parameter values the cached derived
\* quantities were last computed from.
Material ==
    [name |-> "material", rho |-> F(1), order |-> I(1),
     omega |-> STALE, derived |-> {}]

\* A reference that holds no medium yet.
Unallocated == [name |-> "unallocated"]

\* Medium evaluation at angular frequency w: a cache hit leaves the medium
\* alone, otherwise the derived state is recomputed from the current
\* parameters and the marker set to w.
update_frequency(m, w) ==
    IF m.omega = F(w)
    THEN m
    ELSE [m EXCEPT !.omega = F(w),
                   !.derived = {[rho |-> m.rho, order |-> m.order]}]

\* ------------------------------------------------------------------ inputs

LayerIds == {"L1", "L2"}
MaterialRef == "material"
Refs == {MaterialRef} \cup LayerIds

Thicknesses == {I(n) : n \in 0..MaxVal}
Samples == {I(n) : n \in 0..MaxVal} \cup {F(n) : n \in 0..MaxVal}
ParamNames == {"thickness", "rho", "order", "omega"}
Omegas == 1..MaxOmega

\* ------------------------------------------------------------------ state

VARIABLES
    heap,      \* reference -> medium object
    layers,    \* layer id -> Layer / StochasticLayer object, or NoLayer
    last,      \* the last call made and its outcome (history)
    stack,     \* interface resolution: the media of the stack, top first
    pos,       \* interface resolution: the interface being resolved
    resolved   \* interface resolution: the last call and its outcome

vars == <<heap, layers, last, stack, pos, resolved>>

NoLayer == [cls |-> "none"]

NoResolution == [right |-> "", left |-> "", raised |-> "", ret |-> ""]

NoCall ==
    [op |-> "none", layer |-> "", raised |-> "", param |-> "",
     sample_type |-> "", pre |-> None, after_draw |-> FALSE, calls |-> 0]

\* ------------------------------------------------------------------ Layer

\* (faulty variant: the medium is kept by reference, not copied)
deepcopy_alias(h, medium, fresh) == [ref |-> medium, heap |-> h]

\* copy.deepcopy(medium): a fresh object, at reference `fresh', with the
\* content of the object at `medium'
deepcopy(h, medium, fresh) ==
    [ref |-> fresh, heap |-> [h EXCEPT ![fresh] = h[medium]]]

\* Layer.__init__: the thickness as given, a copy of the medium, the name
Layer_init(h, self, medium, thickness) ==
    LET cp == deepcopy(h, medium, self)
    IN [obj |-> [cls |-> "Layer", thickness |-> thickness,
                 medium |-> cp.ref, name |-> "Unnamed Layer"],
        heap |-> cp.heap]

\* ------------------------------------------------------------------ StochasticLayer

\* (faulty variant: the name is not looked up in the schema)
StochasticLayer_init_unchecked(h, self, medium, thickness, stochastic_param) ==
    LET base == Layer_init(h, self, medium, thickness)
        obj == [cls |-> "StochasticLayer",
                thickness |-> base.obj.thickness,
                medium |-> base.obj.medium,
                name |-> base.obj.name,
                stochastic_param |-> stochastic_param,
                medium_params |-> dict(EXPECTED_PARAMS \o OPT_PARAMS)]
    IN IF stochastic_param = "thickness"
       THEN [raised |-> "", heap |-> base.heap,
             obj |-> obj @@ [new_draw |-> "draw_thickness",
                             initial_param_value |-> obj.thickness]]
       ELSE [raised |-> "", heap |-> base.heap,
             obj |-> obj @@ [initial_param_value |->
                                 getattr(base.heap[obj.medium], stochastic_param),
                             new_draw |-> "draw_medium_parameter"]]

\* StochasticLayer.__init__: binds new_draw and records the initial value
\* of the targeted quantity, or raises ValueError; an object whose
\* constructor raised is never seen by the caller.
StochasticLayer_init(h, self, medium, thickness, stochastic_param) ==
    LET base == Layer_init(h, self, medium, thickness)
        obj == [cls |-> "StochasticLayer",
                thickness |-> base.obj.thickness,
                medium |-> base.obj.medium,
                name |-> base.obj.name,
                stochastic_param |-> stochastic_param,
                medium_params |-> dict(EXPECTED_PARAMS \o OPT_PARAMS)]
    IN IF stochastic_param = "thickness"
       THEN [raised |-> "", heap |-> base.heap,
             obj |-> obj @@ [new_draw |-> "draw_thickness",
                             initial_param_value |-> obj.thickness]]
       ELSE IF stochastic_param \in DOMAIN obj.medium_params
       THEN [raised |-> "", heap |-> base.heap,
             obj |-> obj @@ [initial_param_value |->
                                 getattr(base.heap[obj.medium], stochastic_param),
                             new_draw |-> "draw_medium_parameter"]]
       ELSE [raised |-> "ValueError", heap |-> h, obj |-> NoLayer]

\* (faulty variant: a thickness draw also marks the medium's cache stale)
draw_thickness_invalidating(h, self, pdf) ==
    [raised |-> "", calls |-> 1, ret |-> None,
     obj |-> [self EXCEPT !.thickness = float(pdf)],
     heap |-> [h EXCEPT ![self.medium] = setattr(@, "omega", STALE)]]

\* (faulty variant: a thickness draw also overwrites the recorded value)
draw_thickness_rebasing(h, self, pdf) ==
    [raised |-> "", calls |-> 1, ret |-> None,
     obj |-> [self EXCEPT !.thickness = float(pdf),
                          !.initial_param_value = float(pdf)],
     heap |-> h]

\* __draw_thickness: self.thickness = float(self.pdf()).  `pdf' is the
\* sample the source returns, `calls' the number of calls made to it.
draw_thickness(h, self, pdf) ==
    [raised |-> "", calls |-> 1, ret |-> None,
     obj |-> [self EXCEPT !.thickness = float(pdf)],
     heap |-> h]

\* (faulty variant: the sample is assigned before its type is checked)
draw_medium_parameter_unguarded(h, self, pdf) ==
    LET draw == pdf
        assigned == setattr(h[self.medium], self.stochastic_param, draw)
    IN IF self.stochastic_param \notin DOMAIN self.medium_params
       THEN [raised |-> "KeyError", calls |-> 1, ret |-> None,
             obj |-> self, heap |-> h]
       ELSE IF type(draw) = self.medium_params[self.stochastic_param]
       THEN [raised |-> "", calls |-> 1, ret |-> draw, obj |-> self,
             heap |-> [h EXCEPT ![self.medium] = setattr(assigned, "omega", STALE)]]
       ELSE [raised |-> "TypeError", calls |-> 1, ret |-> None, obj |-> self,
             heap |-> [h EXCEPT ![self.medium] = assigned]]

\* __draw_medium_parameter: one sample; the declared type is looked up
\* (KeyError on a name the schema lacks); on a match the sample is
\* assigned and the cache marked stale, otherwise TypeError is raised.
draw_medium_parameter(h, self, pdf) ==
    LET draw == pdf
    IN IF self.stochastic_param \notin DOMAIN self.medium_params
       THEN [raised |-> "KeyError", calls |-> 1, ret |-> None,
             obj |-> self, heap |-> h]
       ELSE IF type(draw) = self.medium_params[self.stochastic_param]
       THEN [raised |-> "", calls |-> 1, ret |-> draw, obj |-> self,
             heap |-> [h EXCEPT ![self.medium] =
                          setattr(setattr(@, self.stochastic_param, draw),
                                  "omega", STALE)]]
       ELSE [raised |-> "TypeError", calls |-> 1, ret |-> None,
             obj |-> self, heap |-> h]

\* the method bound to self.new_draw at construction
new_draw(h, self, pdf) ==
    IF self.new_draw = "draw_thickness"
    THEN draw_thickness(h, self, pdf)
    ELSE draw_medium_parameter(h, self, pdf)

\* (faulty variant: reinit restores nothing)
reinit_keep_last(h, self) ==
    [obj |-> self, heap |-> h]

\* reinit: the thickness, or the medium attribute, is set back to
\* initial_param_value; nothing else is written.
reinit(h, self) ==
    IF self.stochastic_param = "thickness"
    THEN [obj |-> [self EXCEPT !.thickness = self.initial_param_value],
          heap |-> h]
    ELSE [obj |-> self,
          heap |-> [h EXCEPT ![self.medium] =
                       setattr(@, self.stochastic_param, self.initial_param_value)]]

\* the quantity a StochasticLayer randomises, as it stands in heap h
Target(h, obj) ==
    IF obj.stochastic_param = "thickness"
    THEN obj.thickness
    ELSE getattr(h[obj.medium], obj.stochastic_param)

\* ------------------------------------------------------------------ actions

LayerVarsIdle == UNCHANGED <<stack, pos, resolved>>

NewLayer(id, thickness) ==
    /\ layers[id] = NoLayer
    /\ LET r == Layer_init(heap, id, MaterialRef, thickness)
       IN /\ heap' = r.heap
          /\ layers' = [layers EXCEPT ![id] = r.obj]
          /\ last' = [NoCall EXCEPT !.op = "Layer", !.layer = id]
    /\ LayerVarsIdle

NewStochasticLayer(id, thickness, stochastic_param) ==
    /\ layers[id] = NoLayer
    /\ LET r == StochasticLayer_init(heap, id, MaterialRef, thickness,
                                     stochastic_param)
       IN /\ heap' = r.heap
          /\ layers' = [layers EXCEPT ![id] = r.obj]
          /\ last' = [NoCall EXCEPT !.op = "StochasticLayer", !.layer = id,
                                    !.raised = r.raised,
                                    !.param = stochastic_param]
    /\ LayerVarsIdle

NewDraw(id, pdf) ==
    /\ layers[id].cls = "StochasticLayer"
    /\ LET r == new_draw(heap, layers[id], pdf)
       IN /\ heap' = r.heap
          /\ layers' = [layers EXCEPT ![id] = r.obj]
          /\ last' = [NoCall EXCEPT
                         !.op = "new_draw", !.layer = id,
                         !.raised = r.raised,
                         !.param = layers[id].stochastic_param,
                         !.sample_type = type(pdf),
                         !.pre = Target(heap, layers[id]),
                         !.calls = r.calls]
    /\ LayerVarsIdle

Reinit(id) ==
    /\ layers[id].cls = "StochasticLayer"
    /\ LET r == reinit(heap, layers[id])
       IN /\ heap' = r.heap
          /\ layers' = [layers EXCEPT ![id] = r.obj]
          /\ last' = LET follows == /\ last.op = "new_draw"
                                     /\ last.raised = ""
                                     /\ last.layer = id
                      IN [NoCall EXCEPT
                             !.op = "reinit", !.layer = id,
                             !.param = layers[id].stochastic_param,
                             !.after_draw = follows,
                             !.pre = IF follows THEN last.pre ELSE None]
    /\ LayerVarsIdle

Evaluate(id, w) ==
    /\ layers[id] # NoLayer
    /\ heap' = [heap EXCEPT ![layers[id].medium] = update_frequency(@, w)]
    /\ layers' = layers
    /\ last' = [NoCall EXCEPT !.op = "evaluate", !.layer = id]
    /\ LayerVarsIdle

Init ==
    /\ heap = [r \in Refs |-> IF r = MaterialRef THEN Material ELSE Unallocated]
    /\ layers = [id \in LayerIds |-> NoLayer]
    /\ last = NoCall
    /\ stack = <<>>
    /\ pos = 0
    /\ resolved = NoResolution

Next ==
    \/ \E id \in LayerIds, t \in Thicknesses : NewLayer(id, t)
    \/ \E id \in LayerIds, t \in Thicknesses, p \in ParamNames :
           NewStochasticLayer(id, t, p)
    \/ \E id \in LayerIds, pdf \in Samples : NewDraw(id, pdf)
    \/ \E id \in LayerIds : Reinit(id)
    \/ \E id \in LayerIds, w \in Omegas : Evaluate(id, w)

Spec == Init /\ [][Next]_vars

\* ------------------------------------------------------------------ interfaces

MODELS == {"fluid", "elastic", "pem"}

\* the media a stack can be made of: only the model tag matters here
Media == {[MODEL |-> m] : m \in MODELS}

Stacks == UNION {[1..n -> Media] : n \in 1..MaxStack}

Return(f) == [raised |-> "", ret |-> f]

Raise(e) == [raised |-> e, ret |-> ""]

\* (faulty variant: the two fluid/elastic procedures are exchanged)
generic_interface_swapped(medium_right, medium_left) ==
    IF medium_right.MODEL = "fluid" /\ medium_left.MODEL = "fluid"
    THEN Return("None")
    ELSE IF medium_right.MODEL = "fluid" /\ medium_left.MODEL = "elastic"
    THEN Return("fluid_elastic_interface")
    ELSE IF medium_right.MODEL = "fluid" /\ medium_left.MODEL = "pem"
    THEN Return("fluid_pem_interface")
    ELSE IF medium_right.MODEL = "elastic" /\ medium_left.MODEL = "fluid"
    THEN Return("elastic_fluid_interface")
    ELSE IF medium_right.MODEL = "elastic" /\ medium_left.MODEL = "elastic"
    THEN Return("None")
    ELSE IF medium_right.MODEL = "elastic" /\ medium_left.MODEL = "pem"
    THEN Raise("NotImplementedError")
    ELSE IF medium_right.MODEL = "pem"
    THEN Raise("NotImplementedError")
    ELSE Return("None")

\* The chain of `if's of generic_interface, in the order of the code; a
\* pair that matches none of them falls off the end, and the function
\* returns None.
generic_interface(medium_right, medium_left) ==
    IF medium_right.MODEL = "fluid" /\ medium_left.MODEL = "fluid"
    THEN Return("None")
    ELSE IF medium_right.MODEL = "fluid" /\ medium_left.MODEL = "elastic"
    THEN Return("elastic_fluid_interface")
    ELSE IF medium_right.MODEL = "fluid" /\ medium_left.MODEL = "pem"
    THEN Return("fluid_pem_interface")
    ELSE IF medium_right.MODEL = "elastic" /\ medium_left.MODEL = "fluid"
    THEN Return("fluid_elastic_interface")
    ELSE IF medium_right.MODEL = "elastic" /\ medium_left.MODEL = "elastic"
    THEN Return("None")
    ELSE IF medium_right.MODEL = "elastic" /\ medium_left.MODEL = "pem"
    THEN Raise("NotImplementedError")
    ELSE IF medium_right.MODEL = "pem"
    THEN Raise("NotImplementedError")
    ELSE Return("None")

\* The solver resolves the interface between each pair of consecutive
\* layers, top to bottom, and stops at the first one that raises.
ResolveInterface ==
    /\ pos < Len(stack)
    /\ resolved.raised = ""
    /\ LET r == generic_interface(stack[pos], stack[pos + 1])
       IN /\ resolved' = [right |-> stack[pos].MODEL,
                         left |-> stack[pos + 1].MODEL,
                         raised |-> r.raised, ret |-> r.ret]
          /\ pos' = IF r.raised = "" THEN pos + 1 ELSE pos
    /\ UNCHANGED <<stack, heap, layers, last>>

InitInterface ==
    /\ heap = [r \in Refs |-> IF r = MaterialRef THEN Material ELSE Unallocated]
    /\ layers = [id \in LayerIds |-> NoLayer]
    /\ last = NoCall
    /\ stack \in Stacks
    /\ pos = 1
    /\ resolved = NoResolution

NextInterface == ResolveInterface

SpecInterface == InitInterface /\ [][NextInterface]_vars

\* ------------------------------------------------------------------ properties

Built(id) == layers[id] # NoLayer

Stochastic(id) == layers[id].cls = "StochasticLayer"

\* the step just taken is a new_draw() or a reinit() of a StochasticLayer
DrawOrReinitStep == last'.op \in {"new_draw", "reinit"}

\* C1 (as stated): a successful new_draw() followed by reinit() leaves the
\* targeted quantity equal to the value it had immediately before the draw.
C1_RestoresPreDrawValue ==
    (last.op = "reinit" /\ last.after_draw)
        => Target(heap, layers[last.layer]) = last.pre

\* C1 (amended): a successful new_draw() followed by reinit() leaves the
\* targeted quantity equal to the value recorded at construction; that is
\* the value it had immediately before the draw exactly when the quantity
\* held its construction value before the draw.
C1_RestoresNominalPreDrawValue ==
    (last.op = "reinit" /\ last.after_draw)
        => LET obj == layers[last.layer]
           IN /\ Target(heap, obj) = obj.initial_param_value
              /\ (last.pre = obj.initial_param_value
                      => Target(heap, obj) = last.pre)

\* a reinit() that follows a successful draw made from the nominal state
C1_Witness ==
    /\ last.op = "reinit"
    /\ last.after_draw
    /\ last.pre = layers[last.layer].initial_param_value

\* C2: the cache of a layer's medium is never marked valid (omega a real
\* frequency) while it was computed from a value of the stochastic
\* parameter that is not the parameter's current value.
C2_ValidCacheIsCurrent ==
    \A id \in LayerIds :
        (Stochastic(id) /\ layers[id].stochastic_param # "thickness")
            => LET m == heap[layers[id].medium]
                   p == layers[id].stochastic_param
               IN m.omega # STALE => \A d \in m.derived : d[p] = m[p]

\* C3: a draw whose sample has another type than the schema declares for
\* the stochastic medium parameter raises TypeError and changes neither
\* the medium (parameters and cache marker) nor the layer.
C3_TypeMismatchLeavesMedium ==
    [][(last'.op = "new_draw" /\ last'.param # "thickness")
          => LET obj == layers[last'.layer]
             IN last'.sample_type # obj.medium_params[obj.stochastic_param]
                    => /\ last'.raised = "TypeError"
                       /\ heap' = heap
                       /\ layers' = layers]_vars

\* a draw on a medium parameter has just failed with a type error
C3_Witness ==
    /\ last.op = "new_draw"
    /\ last.param # "thickness"
    /\ last.raised = "TypeError"

\* C4: constructing a StochasticLayer with a name that is neither
\* 'thickness' nor a key of EXPECTED_PARAMS or OPT_PARAMS raises at
\* construction and builds nothing; every StochasticLayer that exists has
\* new_draw bound and a known parameter, and no draw fails on the name.
C4_UnknownParamFailsAtConstruction ==
    LET known == {"thickness"} \cup DOMAIN dict(EXPECTED_PARAMS \o OPT_PARAMS)
    IN /\ (last.op = "StochasticLayer" /\ last.param \notin known)
             => (last.raised = "ValueError" /\ ~Built(last.layer))
       /\ \A id \in LayerIds :
             Stochastic(id)
                 => /\ layers[id].stochastic_param \in known
                    /\ layers[id].new_draw
                          \in {"draw_thickness", "draw_medium_parameter"}
                    /\ (layers[id].new_draw = "draw_thickness")
                          <=> (layers[id].stochastic_param = "thickness")
       /\ last.raised \notin {"KeyError", "AttributeError"}

\* a construction with an unknown parameter name has just been refused
C4_Witness ==
    /\ last.op = "StochasticLayer"
    /\ last.param = "omega"
    /\ last.raised = "ValueError"

\* C5: (fluid, elastic) and (elastic, fluid) resolve to two different
\* coupling procedures, and two media of the same model resolve to None,
\* for each of fluid, elastic and pem.
C5_AsymmetricAndDiagonalNeutral ==
    /\ (resolved.right # "" /\ resolved.right = resolved.left)
           => (resolved.raised = "" /\ resolved.ret = "None")
    /\ LET fe == generic_interface([MODEL |-> "fluid"], [MODEL |-> "elastic"])
           ef == generic_interface([MODEL |-> "elastic"], [MODEL |-> "fluid"])
       IN /\ fe.raised = "" /\ ef.raised = ""
          /\ fe.ret # "None" /\ ef.ret # "None"
          /\ fe.ret # ef.ret

\* the outcome the policy table gives for an ordered pair of different models
PolicyTable(above, below) ==
    CASE above = "fluid" /\ below = "elastic" -> Return("elastic_fluid_interface")
      [] above = "fluid" /\ below = "pem" -> Return("fluid_pem_interface")
      [] above = "elastic" /\ below = "fluid" -> Return("fluid_elastic_interface")
      [] above = "elastic" /\ below = "pem" -> Raise("NotImplementedError")
      [] above = "pem" /\ below = "fluid" -> Raise("NotImplementedError")
      [] above = "pem" /\ below = "elastic" -> Raise("NotImplementedError")

\* C6: for every ordered pair of different models, generic_interface
\* gives the outcome of the policy table: the named procedure, or a
\* NotImplementedError and no value.
C6_OffDiagonalFollowsTable ==
    (resolved.right # "" /\ resolved.right # resolved.left)
        => LET want == PolicyTable(resolved.right, resolved.left)
           IN /\ resolved.raised = want.raised
              /\ resolved.ret = want.ret

\* every off-diagonal pair of the table has been resolved in some stack;
\* this one is the last of them in the order of the code
C6_Witness ==
    /\ resolved.right = "pem"
    /\ resolved.left = "elastic"
    /\ resolved.raised = "NotImplementedError"

\* C7: the thickness of every layer that exists is strictly positive.
C7_ThicknessPositive ==
    \A id \in LayerIds : Built(id) => layers[id].thickness.v > 0

\* C8: every layer holds a medium object of its own, and a new_draw() or
\* reinit() on one StochasticLayer changes neither the medium the layers
\* were built from nor the medium of any other layer.
C8_ExclusiveMedium ==
    /\ [](\A id \in LayerIds :
            Built(id)
                => /\ layers[id].medium # MaterialRef
                   /\ \A other \in LayerIds \ {id} :
                         Built(other) => layers[other].medium # layers[id].medium)
    /\ [][DrawOrReinitStep
            => /\ heap'[MaterialRef] = heap[MaterialRef]
               /\ \A other \in LayerIds \ {last'.layer} :
                     Built(other)
                         => heap'[layers[other].medium]
                                = heap[layers[other].medium]]_vars

\* two layers built from the same material, one of which has just drawn a
\* new value of a medium parameter
C8_Witness ==
    /\ \A id \in LayerIds : Built(id)
    /\ last.op = "new_draw"
    /\ last.raised = ""
    /\ last.param # "thickness"
    /\ heap[layers[last.layer].medium].rho # heap[MaterialRef].rho

\* C9: initial_param_value is the targeted quantity as it was at
\* construction, no later call changes it, and reinit() sets the targeted
\* quantity to it, whatever draws came before; a second reinit() changes
\* nothing.
C9_ReinitRestoresConstructionValue ==
    /\ []((last.op = "StochasticLayer" /\ last.raised = "")
            => layers[last.layer].initial_param_value
                   = Target(heap, layers[last.layer]))
    /\ [](last.op = "reinit"
            => Target(heap, layers[last.layer])
                   = layers[last.layer].initial_param_value)
    /\ [][\A id \in LayerIds :
            Stochastic(id)
                => /\ Stochastic(id)'
                   /\ layers'[id].initial_param_value
                          = layers[id].initial_param_value]_vars
    /\ [][(last.op = "reinit" /\ last'.op = "reinit" /\ last'.layer = last.layer)
            => (heap' = heap /\ layers' = layers)]_vars

\* a reinit() after two draws in a row: the value before the last draw was
\* already not the one recorded at construction
C9_Witness ==
    /\ last.op = "reinit"
    /\ last.after_draw
    /\ last.pre # layers[last.layer].initial_param_value

\* C10: a draw calls the sample source once; on a layer that targets
\* 'thickness', new_draw() and reinit() leave the whole heap of media as it
\* was; on a layer that targets a medium parameter they leave the
\* thickness and every other parameter of the schema as they were.
C10_DrawTouchesOnlyItsTarget ==
    [][DrawOrReinitStep
         => LET id == last'.layer
                obj == layers[id]
            IN /\ last'.op = "new_draw" => last'.calls = 1
               /\ obj.stochastic_param = "thickness" => heap' = heap
               /\ obj.stochastic_param # "thickness"
                     => /\ layers'[id].thickness = obj.thickness
                        /\ \A p \in DOMAIN obj.medium_params \ {obj.stochastic_param} :
                              heap'[obj.medium][p] = heap[obj.medium][p]]_vars

\* a thickness draw on a layer whose medium holds a valid cache
C10_Witness ==
    /\ last.op = "new_draw"
    /\ last.param = "thickness"
    /\ last.raised = ""
    /\ heap[layers[last.layer].medium].omega # STALE
    /\ layers[last.layer].thickness # last.pre

====
